---- MODULE Spec2Model ----
(***************************************************************************)
(* Model of the BBC News scraper: src/app/index.js ("index") and           *)
(* src/unnamed/part_000 ("part_000").  Both scripts are one sequential     *)
(* async job: connect, sweep, launch, load the listing, collect the        *)
(* candidates, visit each candidate in a bounded retry loop, write the     *)
(* snapshot file, release the browser and the connection.                  *)
(*                                                                         *)
(* A JavaScript string is a sequence of atoms.  An atom is one character   *)
(* where the code looks inside the string (headlines, body text), and a    *)
(* whole literal where the code only concatenates it.                      *)
(***************************************************************************)
EXTENDS Integers, Sequences, FiniteSets, TLC

----------------------------------------------------------------------------
(* JavaScript values that are not strings *)

Null == <<"null">>
Undefined == <<"undefined">>
NoElement == <<"no-element">>

\* JavaScript truthiness of a string-or-null value (!v)
Falsy(v) == v = Null \/ v = Undefined \/ v = <<>>

----------------------------------------------------------------------------
(* String.prototype helpers *)

Min(a, b) == IF a < b THEN a ELSE b

RECURSIVE SplitAcc(_, _, _, _)
SplitAcc(s, sep, cur, acc) ==
    IF s = <<>> THEN Append(acc, cur)
    ELSE IF Head(s) = sep
         THEN SplitAcc(Tail(s), sep, <<>>, Append(acc, cur))
         ELSE SplitAcc(Tail(s), sep, Append(cur, Head(s)), acc)

\* s.split(sep): "".split(' ') is [""]
Split(s, sep) == SplitAcc(s, sep, <<>>, <<>>)

\* arr.slice(0, n)
SliceFirst(arr, n) == SubSeq(arr, 1, Min(n, Len(arr)))

\* s.slice(-n)
SliceLast(s, n) == IF Len(s) <= n THEN s ELSE SubSeq(s, Len(s) - n + 1, Len(s))

RECURSIVE Join(_, _)
\* arr.join(sep)
Join(arr, sep) ==
    IF arr = <<>> THEN <<>>
    ELSE IF Len(arr) = 1 THEN arr[1]
    ELSE arr[1] \o sep \o Join(Tail(arr), sep)

Upper == <<"A", "B", "C", "D", "E", "F", "G", "H", "I", "J", "K", "L", "M",
           "N", "O", "P", "Q", "R", "S", "T", "U", "V", "W", "X", "Y", "Z">>
Lower == <<"a", "b", "c", "d", "e", "f", "g", "h", "i", "j", "k", "l", "m",
           "n", "o", "p", "q", "r", "s", "t", "u", "v", "w", "x", "y", "z">>
LowerLetters == {Lower[i] : i \in 1..Len(Lower)}

LowerChar(c) ==
    IF \E i \in 1..Len(Upper) : Upper[i] = c
    THEN Lower[CHOOSE i \in 1..Len(Upper) : Upper[i] = c]
    ELSE c

\* s.toLowerCase()
ToLowerCase(s) == [i \in 1..Len(s) |-> LowerChar(s[i])]

IsLowerLetter(c) == c \in LowerLetters

\* s.replace(/[^a-z]/g, '')
StripNonLetters(s) == SelectSeq(s, IsLowerLetter)

RECURSIVE TrimStart(_)
TrimStart(s) == IF s # <<>> /\ Head(s) = " " THEN TrimStart(Tail(s)) ELSE s

RECURSIVE TrimEnd(_)
TrimEnd(s) ==
    IF s # <<>> /\ s[Len(s)] = " " THEN TrimEnd(SubSeq(s, 1, Len(s) - 1)) ELSE s

\* s.trim()
Trim(s) == TrimEnd(TrimStart(s))

----------------------------------------------------------------------------
(* Literals of the scripts *)

Resource == <<"BBC News">>
Origin == <<"https://www.bbc.com">>
DefaultImage == <<"https://news.bbc.co.uk/nol/shared/img/bbc_news_120x60.gif">>
maxAttempts == 3
SummaryWords == 25

DefaultAuthor(script) ==
    IF script = "index" THEN <<"See article for details">>
    ELSE <<"See article for deatails">>

\* `<br><br><ul><li><a href='${link}'>Visit ${resource}</a></li></ul>`
\* (an undefined or null link is interpolated as its name)
Citation(link, resource) ==
    <<"<br><br><ul><li><a href='">> \o link \o <<"'>Visit ">> \o resource
        \o <<"</a></li></ul>">>

\* `<p>${p}</p>`
Paragraph(p) == <<"<p>">> \o p \o <<"</p>">>

----------------------------------------------------------------------------
(* Date *)

\* Instants are small naturals: 0 is the epoch, 1 the publication instant of
\* the modelled article pages, 1 + n the instant the clock shows in run n.
IsoText == <<"1970-01-01T00:00:00.000Z", "2024-05-01T10:00:00.000Z",
             "2024-06-01T08:00:00.000Z", "2024-06-02T08:00:00.000Z",
             "2024-06-03T08:00:00.000Z", "2024-06-04T08:00:00.000Z">>
\* spellings Date accepts that are not what toISOString prints
OtherText == <<"Thu, 01 Jan 1970 00:00:00 GMT", "Wed, 01 May 2024 10:00:00 GMT",
               "Sat, 01 Jun 2024 08:00:00 GMT", "Sun, 02 Jun 2024 08:00:00 GMT",
               "Mon, 03 Jun 2024 08:00:00 GMT", "Tue, 04 Jun 2024 08:00:00 GMT">>
Instants == 0..(Len(IsoText) - 1)

\* Date.now() / new Date() during run n
Now(n) == 1 + n

InvalidDate == [valid |-> FALSE, t |-> 0]

\* new Date(raw): null converts to 0, an unparsable string to an Invalid Date
NewDate(raw) ==
    IF raw = Null THEN [valid |-> TRUE, t |-> 0]
    ELSE IF \E t \in Instants : raw = <<IsoText[t + 1]>> \/ raw = <<OtherText[t + 1]>>
    THEN [valid |-> TRUE,
          t |-> CHOOSE t \in Instants :
                    raw = <<IsoText[t + 1]>> \/ raw = <<OtherText[t + 1]>>]
    ELSE InvalidDate

\* date.toISOString(): throws a RangeError on an Invalid Date
ToISOStringThrows(d) == ~d.valid
toISOString(d) == <<IsoText[d.t + 1]>>

Digits36 == <<"0", "1", "2", "3", "4", "5", "6", "7", "8", "9">> \o Lower

RECURSIVE ToString36(_)
\* n.toString(36) for a natural n
ToString36(n) ==
    IF n < 36 THEN <<Digits36[n + 1]>>
    ELSE ToString36(n \div 36) \o <<Digits36[(n % 36) + 1]>>

----------------------------------------------------------------------------
(* Pure functions of the scripts *)

processBodyIndex(body, link) ==
    LET first == IF body # Null
                 THEN Paragraph(body) \o Citation(link, Resource)
                 ELSE <<>>
    IN  IF ~Falsy(link) /\ Falsy(body) THEN first \o Citation(link, Resource)
        ELSE IF Falsy(link) /\ Falsy(body) THEN <<>>
        ELSE first

processBodyPart(paragraphs, link) ==
    Join([i \in 1..Len(paragraphs) |-> Paragraph(paragraphs[i])], <<>>)
        \o Citation(link, Resource)

\* processBody of either script; body is a string for "index" and a
\* sequence of paragraph strings for "part_000"
processBody(script, body, link) ==
    IF script = "index" THEN processBodyIndex(body, link)
    ELSE processBodyPart(body, link)

\* headline.split(' ').slice(0, 3).join('').toLowerCase().replace(/[^a-z]/g, '')
BaseSlug(headline) ==
    StripNonLetters(ToLowerCase(Join(SliceFirst(Split(headline, " "), 3), <<>>)))

\* generateSlug of part_000; now is Date.now(), rnd is
\* Math.random().toString(36).slice(-5)
generateSlug(headline, link, now, rnd) ==
    BaseSlug(headline) \o <<"-">> \o SliceLast(ToString36(now), 5) \o rnd

\* body.split(' ').slice(0, 25).join(' ') + '...'
SummaryOf(text) ==
    Join(SliceFirst(Split(text, " "), SummaryWords), <<" ">>) \o <<"...">>

\* the image read with img.getAttribute('src'): null when the attribute is
\* missing
extractMainImageAttribute(page) ==
    IF page.imgs = <<>> THEN DefaultImage
    ELSE IF page.imgs[1].src = <<>> THEN Null
    ELSE page.imgs[1].src

\* page.$eval('img', img => img.src) with its catch
extractMainImage(page) ==
    IF page.imgs = <<>> THEN DefaultImage ELSE page.imgs[1].src

HoldingImages(page) == SelectSeq(page.imgs, LAMBDA i : i.holding)

\* video.getAttribute('poster') || video.querySelector('img')?.src
VideoSignal(video) ==
    IF ~Falsy(video.poster) THEN video.poster
    ELSE IF video.img = NoElement THEN Undefined ELSE video.img

\* page.$eval('video', ...) throws when the page has no video element
VideoEvalThrows(page) == ~page.video.present

\* extractMedia of part_000
extractMedia(page) ==
    IF HoldingImages(page) = <<>> THEN DefaultImage
    ELSE LET primary == HoldingImages(page)[1].src
         IN  IF ~Falsy(primary) THEN primary
             ELSE IF VideoEvalThrows(page) THEN DefaultImage
             ELSE IF ~Falsy(VideoSignal(page.video)) THEN VideoSignal(page.video)
             ELSE DefaultImage

----------------------------------------------------------------------------
(* Field extraction of one attempt, after page.goto succeeded *)

\* part_000: paragraphs.map(p => p.innerText.trim())
TrimAll(ps) == [i \in 1..Len(ps) |-> Trim(ps[i])]

\* article.body before processBody (index.js 93-111)
RawBody(page) == IF page.article = NoElement THEN <<>> ELSE Trim(page.article)

ExtractBody(script, page, link) ==
    IF script = "index" THEN processBody(script, RawBody(page), link)
    ELSE IF page.blocks.throws THEN <<>>
    ELSE processBody(script, TrimAll(page.blocks.ps), link)

ExtractSummary(script, page) ==
    IF script = "index"
    THEN IF ~Falsy(RawBody(page)) THEN SummaryOf(RawBody(page)) ELSE <<>>
    ELSE IF page.blocks.throws THEN <<>>
    ELSE SummaryOf(Join(TrimAll(page.blocks.ps), <<" ">>))

ExtractAuthor(script, page) ==
    IF page.byline = NoElement THEN DefaultAuthor(script) ELSE Trim(page.byline)

\* both scripts call extractMainImage; extractMedia is defined but not called
ExtractMediaField(script, page) == extractMainImage(page)

ExtractDate(script, page, now) ==
    IF script = "index"
    THEN IF ~page.time.present THEN <<>>
         ELSE IF ToISOStringThrows(NewDate(page.time.datetime)) THEN <<>>
         ELSE toISOString(NewDate(page.time.datetime))
    ELSE toISOString([valid |-> TRUE, t |-> now])

\* cuid(): the n-th identifier of a process, which embeds the clock and the
\* counter of the process
Cuid(now, n) == <<"cuid", ToString(now), ToString(n)>>

Fields == {"id", "slug", "headline", "summary", "body", "author", "resource",
           "media", "link", "date"}

\* the article object after the assignments of one attempt
Attach(script, article, page, now, n) ==
    [article EXCEPT
        !.body = ExtractBody(script, page, article.link),
        !.summary = ExtractSummary(script, page),
        !.author = ExtractAuthor(script, page),
        !.media = ExtractMediaField(script, page),
        !.date = ExtractDate(script, page, now),
        !.resource = Resource,
        !.id = Cuid(now, n)]

\* v || ''
OrEmpty(v) == IF Falsy(v) THEN <<>> ELSE v

\* the ten parameters of the INSERT
InsertParams(article) ==
    [article EXCEPT !.summary = OrEmpty(article.summary),
                    !.body = OrEmpty(article.body)]

\* a snapshot of the entries that carry a record only
StringifyRecords(arr) ==
    LET recs == SelectSeq(arr, LAMBDA e : e.id # Undefined)
    IN  [i \in 1..Len(recs) |->
            [f \in {g \in Fields : recs[i][g] # Undefined} |-> recs[i][f]]]

\* JSON.stringify leaves out the properties whose value is undefined
Stringify(arr) ==
    [i \in 1..Len(arr) |->
        [f \in {g \in Fields : arr[i][g] # Undefined} |-> arr[i][f]]]

----------------------------------------------------------------------------
(* Listing collection *)

\* a candidate that is given its id when it is collected
NewArticleWithId(headline, link, slug) ==
    [id |-> <<"cuid", "0", "0">>, slug |-> slug, headline |-> headline,
     summary |-> Undefined, body |-> Undefined, author |-> Undefined,
     resource |-> Undefined, media |-> Undefined, link |-> link, date |-> Undefined]

NewArticle(headline, link, slug) ==
    [id |-> Undefined, slug |-> slug, headline |-> headline, summary |-> Undefined,
     body |-> Undefined, author |-> Undefined, resource |-> Undefined,
     media |-> Undefined, link |-> link, date |-> Undefined]

\* index.js: the map callback throws a TypeError on a match without the
\* headline element (headline.split) or without href (getAttribute(..).trim)
IndexItemThrows(item) == item.h2 = NoElement \/ item.href = Null

IndexItem(item) ==
    NewArticle(Trim(item.h2), Origin \o Trim(item.href), BaseSlug(Trim(item.h2)))

\* part_000: headlineElement && linkElement
PartItemKept(item) == item.h2 # NoElement /\ ~Falsy(item.href)

PartItem(item) == NewArticle(Trim(item.h2), Origin \o Trim(item.href), Undefined)

\* items.map(...) of index.js
IndexItems(items) == [i \in 1..Len(items) |-> IndexItem(items[i])]

\* items.map(...).filter(article => article !== null) of part_000
PartItems(items) ==
    LET kept == SelectSeq(items, PartItemKept)
    IN  [i \in 1..Len(kept) |-> PartItem(kept[i])]

----------------------------------------------------------------------------
(* The site the job runs against *)

MaxItems == 2
MaxRuns == 2
RunItems == 1

Url(path) == <<path>>

HeadABCD == <<"A", " ", "B", " ", "C", " ", "D">>
HeadABCE == <<"A", " ", "B", " ", "C", " ", "E">>

\* a match of the listing selector: its card-headline element and its href
Item(h2, href) == [h2 |-> h2, href |-> href]

RawItems ==
    { Item(HeadABCD, Url("/news/a")),
      Item(<<" ">> \o HeadABCE, Url("/news/b")),
      Item(HeadABCD, Url("/news/c")),
      Item(NoElement, Url("/news/d")) }

RECURSIVE SeqsUpTo(_, _)
SeqsUpTo(S, n) ==
    IF n = 0 THEN {<<>>}
    ELSE LET shorter == SeqsUpTo(S, n - 1)
         IN  shorter \cup {Append(q, x) : q \in shorter, x \in S}

GoodItem == Item(HeadABCD, Url("/news/a"))
BadItem == Item(NoElement, Url("/news/d"))

\* what the locators of the scripts find on an article page:
\*   article   innerText of the 'article' element (index.js), or NoElement
\*   blocks    the 'div[data-component="text-block"] p' elements (part_000),
\*             or the $$eval rejecting
\*   byline    innerText of the byline span, or NoElement
\*   imgs      the img elements in document order: class p_holding_image or
\*             not, and the src property
\*   video     the video element: its poster attribute and the src of an img
\*             inside it
\*   time      the time element and its datetime attribute
NoVideo == [present |-> FALSE, poster |-> Null, img |-> NoElement]
Video(poster, img) == [present |-> TRUE, poster |-> poster, img |-> img]
NoTime == [present |-> FALSE, datetime |-> Null]
Time(datetime) == [present |-> TRUE, datetime |-> datetime]
Img(holding, src) == [holding |-> holding, src |-> src]
Blocks(ps) == [throws |-> FALSE, ps |-> ps]
BlocksThrow == [throws |-> TRUE, ps |-> <<>>]

Page(article, blocks, byline, imgs, video, time) ==
    [article |-> article, blocks |-> blocks, byline |-> byline, imgs |-> imgs,
     video |-> video, time |-> time]

Poster == Video(Url("https://ichef/poster.jpg"), NoElement)
Thumb == Video(Null, Url("https://ichef/thumb.jpg"))
Plain == Img(FALSE, Url("https://ichef/1.jpg"))
Holding == Img(TRUE, Url("https://ichef/hold.jpg"))
HoldingNoSrc == Img(TRUE, <<>>)

BodyText == <<" ", "o", "n", "e", " ", "t", "w", "o">>
Para1 == <<"p", " ", "q">>
Para2 == <<"r", " ">>
Byline == <<"J", "o", " ">>

FullPage ==
    Page(BodyText, Blocks(<<Para1, Para2>>), Byline,
         <<Plain>>, NoVideo, Time(<<IsoText[2]>>))

BarePage == Page(NoElement, Blocks(<<>>), NoElement, <<>>, NoVideo, NoTime)

SitePages == {FullPage}

\* every combination of what the locators of an article page can find
BodyKinds ==
    { [article |-> NoElement, blocks |-> Blocks(<<>>)],
      [article |-> NoElement, blocks |-> BlocksThrow],
      [article |-> <<>>, blocks |-> Blocks(<< <<>> >>)],
      [article |-> BodyText, blocks |-> Blocks(<<Para1, Para2>>)] }
BylineKinds == {NoElement, Byline}
Media(imgs, video) == [imgs |-> imgs, video |-> video]
MediaKinds ==
    { Media(<<>>, NoVideo), Media(<<>>, Poster), Media(<<>>, Thumb),
      Media(<<Plain>>, NoVideo), Media(<<Plain, Holding>>, Poster),
      Media(<<HoldingNoSrc>>, NoVideo), Media(<<HoldingNoSrc>>, Poster),
      Media(<<Holding>>, NoVideo) }
TimeKinds ==
    { NoTime, Time(Null), Time(<<"soon">>), Time(<<IsoText[2]>>),
      Time(<<OtherText[2]>>) }

AllPages ==
    { Page(b.article, b.blocks, by, m.imgs, m.video, t) :
        b \in BodyKinds, by \in BylineKinds, m \in MediaKinds, t \in TimeKinds }

\* Math.random().toString(36).slice(-5)
RandomTails == {<<"k", "3", "x", "9", "q">>, <<"0">>}

\* rows another job left in the table before the first run
OldRow ==
    [NewArticle(HeadABCD, Origin \o Url("/news/old"), <<"abc">>) EXCEPT
        !.id = <<"cuid", "0", "1">>, !.summary = <<>>, !.body = <<>>,
        !.author = DefaultAuthor("index"), !.resource = Resource,
        !.media = DefaultImage, !.date = <<>>]
ForeignRow == [OldRow EXCEPT !.id = <<"cuid", "0", "2">>, !.resource = <<"Other">>]
PriorRows == {OldRow, ForeignRow}

----------------------------------------------------------------------------
(* State *)

VARIABLES
    script,     \* which script the job is: "index" or "part_000"
    world,      \* what the job runs against: "site", "pages", "runs" or "fair"
    run,        \* number of the current run of the job
    pc,         \* the statement the job is at
    client,     \* pg Client: "new", "connected", "ended"
    browser,    \* chromium browser: "none", "open", "closed"
    db,         \* rows of table "Article"
    snapshot,   \* file bbc-articles.json
    articles,   \* articles (index.js) / articlesWithSlugs (part_000)
    idx,        \* position of the for loop in articles
    attempts,   \* attempts of the current candidate
    ids,        \* number of identifiers cuid() has generated in this process
    log,        \* per candidate: what the current run did for it
    trace,      \* what the current run did outside the loop
    earlier,    \* whether a run before this one inserted a row
    call        \* a call of processBody on its own: arguments and result

vars == <<script, world, run, pc, client, browser, db, snapshot, articles, idx,
          attempts, ids, log, trace, earlier, call>>

Scripts == {"index", "part_000"}

SiteListings == SeqsUpTo(RawItems, MaxItems)
RunListings == SeqsUpTo({GoodItem, BadItem}, RunItems)
FairListings == SeqsUpTo({GoodItem, BadItem}, MaxItems)

\* the article pages the site may serve
PagesOf(w) == IF w = "pages" THEN AllPages ELSE SitePages

\* the sequences of matches the listing page may show
ListingsOf(w) ==
    IF w = "pages" THEN {<<GoodItem>>}
    ELSE IF w = "runs" THEN RunListings
    ELSE IF w = "fair" THEN FairListings
    ELSE SiteListings

\* how many times the job is run in succession
RunsOf(w) == IF w = "runs" THEN MaxRuns ELSE 1

NoLog == [gotos |-> 0, inserts |-> 0, rows |-> {}, page |-> <<>>,
          succeeded |-> FALSE]

NoTrace == [sweeps |-> 0, writes |-> 0, listingFailed |-> FALSE, emptyListing |-> FALSE,
            thrown |-> "", inserted |-> {}, ends |-> 0, listing |-> <<>>]

NoCall == [body |-> <<>>, link |-> <<>>, returned |-> FALSE, out |-> <<>>]

InitJob ==
    /\ run = 1
    /\ pc = "connect"
    /\ client = "new"
    /\ browser = "none"
    /\ db = PriorRows
    /\ snapshot = [exists |-> FALSE, content |-> <<>>]
    /\ articles = <<>>
    /\ idx = 0
    /\ attempts = 0
    /\ ids = 0
    /\ log = <<>>
    /\ trace = NoTrace
    /\ earlier = FALSE

Init ==
    /\ script \in Scripts
    /\ world = "site"
    /\ InitJob
    /\ call = NoCall

----------------------------------------------------------------------------
(* The job *)

\* the handler of the outer try: console.error, then the finally block
Caught(step) ==
    /\ pc' = "finally"
    /\ trace' = [trace EXCEPT !.thrown = step]

\* a job that launches the browser right after connecting
AfterConnectNoSweep == "launch"

\* the statement after client.connect(): the DELETE
AfterConnect == "sweep"

\* client.connect()
Connect ==
    /\ pc = "connect"
    /\ \E ok \in BOOLEAN :
        IF ok
        THEN /\ client' = "connected"
             /\ pc' = AfterConnect
             /\ UNCHANGED trace
        ELSE /\ Caught("connect")
             /\ UNCHANGED client
    /\ UNCHANGED <<script, world, run, browser, db, snapshot, articles, idx,
                   attempts, ids, log, earlier, call>>

\* a sweep whose WHERE clause matches no stored row
DeleteByOtherResource(rows, resource) == {r \in rows : r.resource = resource}

\* DELETE FROM "Article" WHERE resource = $1
DeleteByResource(rows, resource) == {r \in rows : r.resource # resource}

\* an INSERT that first deletes the rows of the resource
InsertRowAfterSweep(rows, row) == DeleteByResource(rows, Resource) \cup {row}

\* INSERT INTO "Article" (...) VALUES ($1, ..., $10)
InsertRow(rows, row) == rows \cup {row}

Sweep ==
    /\ pc = "sweep"
    /\ \E ok \in BOOLEAN :
        IF ok
        THEN /\ db' = DeleteByResource(db, Resource)
             /\ pc' = "launch"
             /\ trace' = [trace EXCEPT !.sweeps = @ + 1]
        ELSE /\ Caught("sweep")
             /\ UNCHANGED db
    /\ UNCHANGED <<script, world, run, client, browser, snapshot, articles, idx,
                   attempts, ids, log, earlier, call>>

\* chromium.launch()
Launch ==
    /\ pc = "launch"
    /\ \E ok \in BOOLEAN :
        IF ok
        THEN /\ browser' = "open"
             /\ pc' = "newPage"
             /\ UNCHANGED trace
        ELSE /\ Caught("launch")
             /\ UNCHANGED browser
    /\ UNCHANGED <<script, world, run, client, db, snapshot, articles, idx,
                   attempts, ids, log, earlier, call>>

\* browser.newPage()
NewPage ==
    /\ pc = "newPage"
    /\ \E ok \in BOOLEAN :
        IF ok
        THEN /\ pc' = "listing"
             /\ UNCHANGED trace
        ELSE Caught("newPage")
    /\ UNCHANGED <<script, world, run, client, browser, db, snapshot, articles,
                   idx, attempts, ids, log, earlier, call>>

\* the handler of the listing try without its return statement
AfterListingFailureNoReturn == "collect"

\* where the handler of the listing try leaves the job: it closes the
\* browser, ends the client and returns, so only the finally block is left
AfterListingFailure == "finally"

\* page.goto of the listing page (index.js: and the cookie banner steps)
LoadListing ==
    /\ pc = "listing"
    /\ \E ok \in BOOLEAN :
        IF ok
        THEN /\ pc' = "collect"
             /\ UNCHANGED <<browser, client, trace>>
        ELSE /\ browser' = "closed"
             /\ client' = "ended"
             /\ trace' = [trace EXCEPT !.listingFailed = TRUE, !.ends = @ + 1]
             /\ pc' = AfterListingFailure
    /\ UNCHANGED <<script, world, run, db, snapshot, articles, idx, attempts,
                   ids, log, earlier, call>>

\* the state of the for loop over a fresh array of candidates
EnterLoop(arts) ==
    /\ articles' = arts
    /\ log' = [i \in 1..Len(arts) |-> NoLog]
    /\ idx' = 1
    /\ attempts' = 0
    /\ pc' = IF arts = <<>> THEN "snapshot" ELSE "visit"

\* index.js: page.$$eval over the listing matches
CollectIndex ==
    /\ pc = "collect"
    /\ script = "index"
    /\ \E listing \in ListingsOf(world) :
        IF \E i \in 1..Len(listing) : IndexItemThrows(listing[i])
        THEN /\ pc' = "finally"
             /\ trace' = [trace EXCEPT !.thrown = "collect", !.listing = listing]
             /\ UNCHANGED <<articles, log, idx, attempts>>
        ELSE /\ EnterLoop(IndexItems(listing))
             /\ trace' = [trace EXCEPT !.listing = listing]
    /\ UNCHANGED <<script, world, run, client, browser, db, snapshot, ids, earlier, call>>

\* part_000: page.$$eval with its filter, the empty-listing return, and the
\* map that adds the slugs
CollectPart ==
    /\ pc = "collect"
    /\ script = "part_000"
    /\ \E listing \in ListingsOf(world) :
        LET found == PartItems(listing)
        IN  IF Len(found) = 0
            THEN /\ browser' = "closed"
                 /\ client' = "ended"
                 /\ trace' = [trace EXCEPT !.emptyListing = TRUE, !.ends = @ + 1,
                                            !.listing = listing]
                 /\ pc' = "finally"
                 /\ UNCHANGED <<articles, log, idx, attempts>>
            ELSE /\ \E rnd \in [1..Len(found) -> RandomTails] :
                    EnterLoop([i \in 1..Len(found) |->
                        [found[i] EXCEPT !.slug =
                            generateSlug(found[i].headline, found[i].link,
                                         Now(run), rnd[i])]])
                 /\ trace' = [trace EXCEPT !.listing = listing]
                 /\ UNCHANGED <<browser, client>>
    /\ UNCHANGED <<script, world, run, db, snapshot, ids, earlier, call>>

\* page.$$eval rejects (the page crashed or navigated away)
CollectThrows ==
    /\ pc = "collect"
    /\ Caught("collect")
    /\ UNCHANGED <<script, world, run, client, browser, db, snapshot, articles,
                   idx, attempts, ids, log, earlier, call>>

\* a loop guard that does not look at the success flag
whileConditionIgnoringSuccess(success, n) == n < maxAttempts

\* the loop guard with the comparison off by one
whileConditionInclusive(success, n) == ~success /\ n <= maxAttempts

\* while (!success && attempts < maxAttempts)
whileCondition(success, n) == ~success /\ n < maxAttempts

\* the handler of the inner try rethrowing once the attempts are used up
AfterAttemptRethrows(success, n) ==
    IF ~success /\ n >= maxAttempts
    THEN /\ pc' = "finally"
         /\ UNCHANGED <<idx, attempts>>
    ELSE IF ~success
    THEN /\ attempts' = n
         /\ UNCHANGED <<idx, pc>>
    ELSE /\ attempts' = 0
         /\ idx' = idx + 1
         /\ pc' = IF idx + 1 > Len(articles) THEN "snapshot" ELSE "visit"

\* an exhausted candidate ending the for loop (a break in the handler)
AfterAttemptBreaks(success, n) ==
    IF whileCondition(success, n)
    THEN /\ attempts' = n
         /\ UNCHANGED <<idx, pc>>
    ELSE IF ~success
    THEN /\ attempts' = 0
         /\ pc' = "snapshot"
         /\ UNCHANGED idx
    ELSE /\ attempts' = 0
         /\ idx' = idx + 1
         /\ pc' = IF idx + 1 > Len(articles) THEN "snapshot" ELSE "visit"

\* after one pass of the while body: stay on the candidate, or move the for
\* loop on, and leave it after the last candidate
AfterAttempt(success, n) ==
    IF whileCondition(success, n)
    THEN /\ attempts' = n
         /\ UNCHANGED <<idx, pc>>
    ELSE /\ attempts' = 0
         /\ idx' = idx + 1
         /\ pc' = IF idx + 1 > Len(articles) THEN "snapshot" ELSE "visit"

\* one pass of the while body in which page.goto rejects
VisitGotoFails ==
    /\ pc = "visit"
    /\ whileCondition(FALSE, attempts)
    /\ log' = [log EXCEPT ![idx].gotos = @ + 1]
    /\ AfterAttempt(FALSE, attempts + 1)
    /\ UNCHANGED <<script, world, run, client, browser, db, snapshot, articles,
                   ids, trace, earlier, call>>

\* the pages page.goto may land on: a link serves the same page every time
\* it is loaded within a run
Served(w, seen) == IF seen = <<>> THEN PagesOf(w) ELSE {seen[1]}

\* one pass of the while body in which page.goto resolves: the extractors
\* run, the fields are attached, and the INSERT resolves or rejects
VisitLoaded ==
    /\ pc = "visit"
    /\ whileCondition(FALSE, attempts)
    /\ \E page \in Served(world, log[idx].page), inserted \in BOOLEAN :
        LET article == Attach(script, articles[idx], page, Now(run), ids + 1)
        IN  /\ articles' = [articles EXCEPT ![idx] = article]
            /\ ids' = ids + 1
            /\ db' = IF inserted THEN InsertRow(db, InsertParams(article)) ELSE db
            /\ log' = [log EXCEPT ![idx] =
                    [gotos |-> @.gotos + 1, inserts |-> @.inserts + 1,
                     rows |-> IF inserted THEN @.rows \cup {article.id} ELSE @.rows,
                     page |-> <<page>>,
                     succeeded |-> inserted]]
            /\ trace' = IF inserted
                        THEN [trace EXCEPT !.inserted = @ \cup {article.id}]
                        ELSE trace
            /\ AfterAttempt(inserted, attempts + 1)
    /\ UNCHANGED <<script, world, run, client, browser, snapshot, earlier, call>>

\* fs.writeFileSync('bbc-articles.json', JSON.stringify(...))
WriteSnapshot ==
    /\ pc = "snapshot"
    /\ \E ok \in BOOLEAN :
        IF ok
        THEN /\ snapshot' = [exists |-> TRUE, content |-> Stringify(articles)]
             /\ trace' = [trace EXCEPT !.writes = @ + 1]
             /\ pc' = "close"
        ELSE /\ Caught("snapshot")
             /\ UNCHANGED snapshot
    /\ UNCHANGED <<script, world, run, client, browser, db, articles, idx,
                   attempts, ids, log, earlier, call>>

\* browser.close() at the end of the try block
CloseBrowser ==
    /\ pc = "close"
    /\ browser' = "closed"
    /\ pc' = "finally"
    /\ UNCHANGED <<script, world, run, client, db, snapshot, articles, idx,
                   attempts, ids, log, trace, earlier, call>>

\* finally { await client.end() }
Finally ==
    /\ pc = "finally"
    /\ client' = "ended"
    /\ trace' = [trace EXCEPT !.ends = @ + 1]
    /\ pc' = "done"
    /\ UNCHANGED <<script, world, run, browser, db, snapshot, articles, idx,
                   attempts, ids, log, earlier, call>>

\* the job is started again: a new process, the same table and file
StartRun ==
    /\ pc = "done"
    /\ run < RunsOf(world)
    /\ run' = run + 1
    /\ pc' = "connect"
    /\ client' = "new"
    /\ browser' = "none"
    /\ articles' = <<>>
    /\ idx' = 0
    /\ attempts' = 0
    /\ log' = <<>>
    /\ trace' = NoTrace
    /\ ids' = 0
    /\ earlier' = (earlier \/ trace.inserted # {})
    /\ UNCHANGED <<script, world, db, snapshot, call>>

Job ==
    \/ Connect \/ Sweep \/ Launch \/ NewPage \/ LoadListing
    \/ CollectIndex \/ CollectPart \/ CollectThrows
    \/ VisitGotoFails \/ VisitLoaded
    \/ WriteSnapshot \/ CloseBrowser \/ Finally

Next == Job

Spec == Init /\ [][Next]_vars

\* every awaited call of the job returns or throws: the job is never left
\* waiting at a statement
InitFair ==
    /\ script \in Scripts
    /\ world = "fair"
    /\ InitJob
    /\ call = NoCall

SpecFair == InitFair /\ [][Next]_vars /\ WF_vars(Next)

\* one candidate, every kind of article page
InitPages ==
    /\ script \in Scripts
    /\ world = "pages"
    /\ InitJob
    /\ call = NoCall

SpecPages == InitPages /\ [][Next]_vars

\* the job run MaxRuns times in succession
InitRuns ==
    /\ script \in Scripts
    /\ world = "runs"
    /\ InitJob
    /\ call = NoCall

NextRuns == Job \/ StartRun

SpecRuns == InitRuns /\ [][NextRuns]_vars

----------------------------------------------------------------------------
(* Properties of one run (Spec) *)

Candidates == 1..Len(articles)

StoredFor(resource) == {r \in db : r.resource = resource}

\* the candidates the for loop has left behind
Finished(i) == i \in Candidates /\ (i < idx \/ pc # "visit")

\* C1: every candidate gets at least 1 and at most 3 page.goto calls: no
\* attempt follows one that completed without error, and a candidate is
\* given up only after its third failed attempt.
C1_AttemptsBounded ==
    \A i \in Candidates :
        /\ log[i].gotos <= 3
        /\ Finished(i) =>
            /\ log[i].gotos >= 1
            /\ log[i].succeeded \/ log[i].gotos = 3
        /\ ~Finished(i) =>
            /\ ~log[i].succeeded
            /\ log[i].gotos = (IF i = idx THEN attempts ELSE 0)

C1_Witness ==
    /\ pc = "done"
    /\ \E i, j \in Candidates :
        /\ log[i].gotos = 3 /\ ~log[i].succeeded
        /\ log[j].gotos = 2 /\ log[j].succeeded

\* the part of the snapshot file that holds records: the entries that
\* carry the fields of a row
SucceededPartition == {i \in 1..Len(snapshot.content) : "id" \in DOMAIN snapshot.content[i]}

\* C2: a candidate whose page.goto never resolved has, when the job has
\* finished, no INSERT issued for it, no row of its own in the table, and no
\* entry in the record-carrying part of bbc-articles.json.
C2_NeverLoadedLeavesNoRecord ==
    pc = "done" =>
        \A i \in Candidates :
            log[i].page = <<>> /\ log[i].gotos = 3 =>
                /\ log[i].inserts = 0
                /\ log[i].rows = {}
                /\ \A r \in db :
                    r.link = articles[i].link /\ r.slug = articles[i].slug =>
                        \E j \in Candidates \ {i} : r.id \in log[j].rows
                /\ trace.writes = 1 => i \notin SucceededPartition

C2_Witness ==
    /\ pc = "done"
    /\ trace.writes = 1
    /\ \E i, j \in Candidates :
        /\ log[i].page = <<>> /\ log[i].gotos = 3
        /\ log[j].succeeded
        /\ articles[j].link = articles[i].link
        /\ j \in SucceededPartition

\* C3: an error inside the attempts of one candidate never ends the batch:
\* the loop is left only after every candidate was attempted at least once,
\* it is left for the snapshot step, and inside the loop a next attempt is
\* always possible.
C3_BatchNeverAborted ==
    articles # <<>> =>
        /\ pc \in {"visit", "snapshot", "close", "finally", "done"}
        /\ \A i \in Candidates : i < idx => log[i].gotos >= 1
        /\ pc = "visit" => idx \in Candidates /\ ENABLED (VisitGotoFails \/ VisitLoaded)
        /\ pc # "visit" =>
            /\ idx = Len(articles) + 1
            /\ pc = "snapshot" \/ trace.writes = 1 \/ trace.thrown = "snapshot"

C3_Witness ==
    /\ pc = "close"
    /\ Len(articles) >= 2
    /\ log[1].gotos = 3 /\ ~log[1].succeeded /\ log[1].inserts >= 1
    /\ log[2].gotos >= 1

\* C5: whenever the job ends after the browser was launched, browser.close
\* and client.end have both been called.
C5_ReleasedOnEveryPath ==
    pc = "done" /\ browser # "none" => browser = "closed" /\ client = "ended"

\* C7: two different candidates of one run never have the same slug (here:
\* two candidates that are not even the same link matched twice).
C7_SlugsDistinct ==
    \A i, j \in Candidates :
        i # j /\ articles[i].link # articles[j].link =>
            articles[i].slug # articles[j].slug

\* C10: when the navigation to the listing page fails, the job ends after
\* closing the browser and the connection, with no article visited, no
\* INSERT issued and no snapshot written.
C10_ListingFailureAborts ==
    trace.listingFailed =>
        /\ pc \in {"finally", "done"}
        /\ articles = <<>> /\ log = <<>>
        /\ ids = 0
        /\ trace.inserted = {}
        /\ db = DeleteByResource(PriorRows, Resource)
        /\ trace.writes = 0 /\ ~snapshot.exists
        /\ browser = "closed" /\ client = "ended"

C10_Witness == trace.listingFailed /\ pc = "done"

\* the for loop was entered and has been left
LoopEnded == idx = Len(articles) + 1

\* calls of fs.writeFileSync so far: the ones that returned and the one that
\* threw
WriteCalls == trace.writes + (IF trace.thrown = "snapshot" THEN 1 ELSE 0)

\* a listing match with a headline element and an href
Resolved(item) == item.h2 # NoElement /\ ~Falsy(item.href)

\* the links of the listing matches that resolve, in listing order
ListingLinks ==
    LET kept == SelectSeq(trace.listing, Resolved)
    IN  [i \in 1..Len(kept) |-> Origin \o Trim(kept[i].href)]

\* C11: fs.writeFileSync is not called before the for loop has been left and
\* is called exactly once after it, after the last attempt of the last
\* candidate; the file it leaves holds one entry per candidate, in listing
\* order, exhausted candidates included, and each entry has exactly the fields
\* that were attached to the candidate: all ten once a page.goto of it has
\* resolved, headline, link and slug otherwise.
C11_SnapshotAfterLoop ==
    /\ ~LoopEnded => WriteCalls = 0 /\ ~snapshot.exists
    /\ LoopEnded =>
        /\ WriteCalls = (IF pc = "snapshot" THEN 0 ELSE 1)
        /\ \A i \in Candidates : log[i].gotos >= 1
    /\ trace.writes = 1 =>
        /\ snapshot.exists
        /\ Len(snapshot.content) = Len(articles)
        /\ [i \in 1..Len(snapshot.content) |-> snapshot.content[i].link] = ListingLinks
        /\ \A i \in Candidates :
            /\ \A f \in DOMAIN snapshot.content[i] :
                    snapshot.content[i][f] = articles[i][f]
            /\ DOMAIN snapshot.content[i] =
                    (IF log[i].page = <<>> THEN {"headline", "link", "slug"} ELSE Fields)
            /\ ~log[i].succeeded => log[i].gotos = maxAttempts

C11_Witness ==
    /\ pc = "done" /\ trace.writes = 1
    /\ Len(articles) = 2
    /\ log[1].page # <<>> /\ ~log[1].succeeded
    /\ log[2].page = <<>>
    /\ Len(trace.listing) = 2

\* the ingestion loop ran over every candidate and the snapshot was written
Completed ==
    /\ LoopEnded
    /\ \A i \in Candidates : log[i].gotos >= 1 /\ (log[i].succeeded \/ log[i].gotos = maxAttempts)
    /\ trace.writes = 1 /\ snapshot.exists

\* the job ended before the loop: no article was navigated to and nothing
\* was inserted
AbortedBeforeProcessing ==
    /\ idx = 0 /\ articles = <<>> /\ log = <<>>
    /\ ids = 0 /\ trace.inserted = {}
    /\ db \subseteq PriorRows
    /\ trace.writes = 0 /\ ~snapshot.exists

\* the ingestion loop ran over every candidate and fs.writeFileSync threw:
\* the rows of the run are stored and there is no snapshot
CompletedWithoutSnapshot ==
    /\ LoopEnded
    /\ \A i \in Candidates : log[i].gotos >= 1 /\ (log[i].succeeded \/ log[i].gotos = maxAttempts)
    /\ trace.thrown = "snapshot"
    /\ trace.writes = 0 /\ ~snapshot.exists

\* C12 as stated: the job always ends, and it ends either completed (the loop
\* ran over every candidate and the snapshot was written) or aborted before
\* any processing.
C12_TwoFinalStates ==
    /\ <>(pc = "done")
    /\ [](pc = "done" => Completed \/ AbortedBeforeProcessing)

\* C12 as amended: the job always ends, and it ends in one of three states:
\* completed, aborted before any processing, or with the loop run over every
\* candidate and no snapshot because fs.writeFileSync threw; it never ends
\* with some but not all candidates attempted.
C12_FinalStates ==
    /\ <>(pc = "done")
    /\ [](pc = "done" =>
            /\ Completed \/ AbortedBeforeProcessing \/ CompletedWithoutSnapshot
            /\ ~ENABLED Next
            /\ \A i \in Candidates : log[i].gotos >= 1)

C12_Witness ==
    /\ pc = "done"
    /\ CompletedWithoutSnapshot
    /\ \E i, j \in Candidates : log[i].succeeded /\ ~log[j].succeeded

\* C13: a candidate whose page.goto has resolved in some attempt was
\* inserted and marked succeeded by that same attempt: it has had exactly one
\* attempt that got past page.goto, and no attempt after it.
C13_OnlyNavigationRetries ==
    \A i \in Candidates :
        log[i].inserts >= 1 => log[i].succeeded /\ log[i].inserts = 1

\* C14: the DELETE is executed once in a run that gets to it, before the
\* first INSERT is issued; no DELETE follows an INSERT, and every row the run
\* has inserted is still stored.
C14_SweepOnceBeforeInserts ==
    /\ trace.sweeps <= 1
    /\ pc \notin {"connect", "sweep"} /\ trace.thrown \notin {"connect", "sweep"} =>
            trace.sweeps = 1
    /\ pc \in {"connect", "sweep"} => ids = 0 /\ trace.inserted = {}
    /\ ids > 0 => trace.sweeps = 1 /\ OldRow \notin db
    /\ \A id \in trace.inserted : \E r \in db : r.id = id /\ r.resource = Resource
    /\ Cardinality(StoredFor(Resource)) >= Cardinality(trace.inserted)

C14_Witness ==
    /\ pc = "done"
    /\ trace.sweeps = 1
    /\ OldRow \notin db
    /\ Cardinality(trace.inserted) = 2
    /\ Cardinality(StoredFor(Resource)) = 2

\* a listing match that resolves to a non-empty headline and a link
Conforms(item) == Resolved(item) /\ Trim(item.h2) # <<>>

\* the links of the conforming matches of the listing, in listing order
ConformingLinks ==
    LET kept == SelectSeq(trace.listing, Conforms)
    IN  [i \in 1..Len(kept) |-> Origin \o Trim(kept[i].href)]

\* C17: once the listing matches have been collected, no error was raised
\* by the collection, the candidates are exactly the conforming matches, in
\* listing order, and when the job has ended each of them has been attempted.
C17_NonConformingDropped ==
    trace.listing # <<>> =>
        /\ trace.thrown # "collect"
        /\ [i \in Candidates |-> articles[i].link] = ConformingLinks
        /\ pc = "done" => \A i \in Candidates : log[i].gotos >= 1

\* C18: no two candidates of a run have the same link, and no two rows the
\* run inserted are rows of the same link.
C18_CandidatesDeduplicated ==
    /\ \A i, j \in Candidates : i # j => articles[i].link # articles[j].link
    /\ \A r1, r2 \in db :
            r1.id \in trace.inserted /\ r2.id \in trace.inserted /\ r1.link = r2.link
                => r1 = r2

----------------------------------------------------------------------------
(* Properties of runs in succession (SpecRuns) *)

\* the run whose process generated an id
InsertedInRun(r, n) == r.id[2] = ToString(Now(n))

\* C4: when a run that follows another has swept and ended, the rows
\* stored for 'BBC News' are exactly the rows this run inserted, each once,
\* and none of them is a row of an earlier run.
C4_SecondRunReplacesFirst ==
    run >= 2 /\ pc = "done" /\ trace.sweeps = 1 =>
        /\ {r.id : r \in StoredFor(Resource)} = trace.inserted
        /\ Cardinality(StoredFor(Resource)) = Cardinality(trace.inserted)
        /\ \A r \in StoredFor(Resource) : InsertedInRun(r, run) /\ r # OldRow

C4_Witness ==
    /\ run = 2 /\ pc = "done" /\ trace.sweeps = 1
    /\ earlier
    /\ trace.inserted # {}

\* C19: the listing page is loaded only after the DELETE, so a run that
\* swept and then ended at the listing page load or at the empty-listing
\* return of part_000 leaves no row stored for 'BBC News', whatever an earlier
\* run had stored; the rows of other resources are untouched.
C19_AbortLeavesSourceEmpty ==
    /\ pc \in {"listing", "collect"} \/ trace.listingFailed \/ trace.emptyListing =>
            trace.sweeps = 1
    /\ trace.listingFailed \/ trace.emptyListing =>
            /\ StoredFor(Resource) = {}
            /\ db = {ForeignRow}
            /\ trace.inserted = {}

C19_Witness ==
    /\ run = 2 /\ pc = "done"
    /\ earlier
    /\ trace.emptyListing
    /\ StoredFor(Resource) = {}

----------------------------------------------------------------------------
(* Properties of the extractors (SpecPages) *)

\* the row of the table that candidate i's successful attempt inserted, with
\* the page the attempt had loaded
RowsOf(i) == {r \in db : r.id \in log[i].rows}
PageOf(i) == log[i].page[1]

NonNull(r) == \A f \in Fields : r[f] # Null /\ r[f] # Undefined

BodyLocatorFails(p) ==
    IF script = "index" THEN p.article = NoElement
    ELSE p.blocks.throws \/ p.blocks.ps = <<>>

DateLocatorFails(p) ==
    \/ ~p.time.present
    \/ p.time.datetime # Null /\ ~NewDate(p.time.datetime).valid

\* C6 as stated: every field of an inserted row is non-null, and author,
\* media, date, body and summary take their fallback when their locator fails:
\* the fallback of body, summary and date being the empty string.
C6_FallbacksAsStated ==
    \A i \in Candidates : \A r \in RowsOf(i) :
        /\ NonNull(r)
        /\ PageOf(i).byline = NoElement => r.author = DefaultAuthor(script)
        /\ PageOf(i).imgs = <<>> => r.media = DefaultImage
        /\ DateLocatorFails(PageOf(i)) => r.date = <<>>
        /\ BodyLocatorFails(PageOf(i)) => r.body = <<>> /\ r.summary = <<>>

\* what holds of C6 in the code: every field of an inserted row is non-null;
\* author and media take their fixed fallback when their locator fails; in
\* index.js the date is empty when there is no time element or the attribute
\* does not parse, the summary is empty when there is no article element, and
\* the body is then processBody('', link): an empty paragraph and the citation
\* block twice; in part_000 the date is always the clock's, body and summary
\* are empty when the paragraph $$eval rejects, and when it matches nothing
\* the body is the citation block and the summary '...'.
C6_Fallbacks ==
    \A i \in Candidates : \A r \in RowsOf(i) :
        /\ NonNull(r)
        /\ PageOf(i).byline = NoElement => r.author = DefaultAuthor(script)
        /\ PageOf(i).imgs = <<>> => r.media = DefaultImage
        /\ script = "index" =>
            /\ DateLocatorFails(PageOf(i)) => r.date = <<>>
            /\ PageOf(i).article = NoElement =>
                /\ r.summary = <<>>
                /\ r.body = Paragraph(<<>>) \o Citation(r.link, Resource)
                                \o Citation(r.link, Resource)
        /\ script = "part_000" =>
            /\ r.date = <<IsoText[Now(run) + 1]>>
            /\ PageOf(i).blocks.throws => r.body = <<>> /\ r.summary = <<>>
            /\ ~PageOf(i).blocks.throws /\ PageOf(i).blocks.ps = <<>> =>
                r.body = Citation(r.link, Resource) /\ r.summary = <<"...">>

C6_Witness ==
    \E i \in Candidates : \E r \in RowsOf(i) :
        /\ PageOf(i).byline = NoElement
        /\ PageOf(i).imgs = <<>>
        /\ ~PageOf(i).time.present
        /\ PageOf(i).article = NoElement
        /\ PageOf(i).blocks.throws

\* a page with no img element at all and a video that has a poster or a
\* thumbnail
OnlySecondarySignal(p) ==
    p.imgs = <<>> /\ p.video.present /\ ~Falsy(VideoSignal(p.video))

\* C8: for a page with only a secondary media signal the media value is that
\* signal: both the value the job attaches and the value of extractMedia.
C8_SecondarySignalWins ==
    \A i \in Candidates :
        log[i].page # <<>> /\ OnlySecondarySignal(PageOf(i)) =>
            /\ articles[i].media = VideoSignal(PageOf(i).video)
            /\ extractMedia(PageOf(i)) = VideoSignal(PageOf(i).video)

\* the body text the body locator of the script extracted from a page
ExtractedText(p) ==
    IF script = "index"
    THEN IF p.article = NoElement THEN <<>> ELSE Trim(p.article)
    ELSE IF p.blocks.throws THEN <<>>
    ELSE Join([k \in 1..Len(p.blocks.ps) |-> Trim(p.blocks.ps[k])], <<" ">>)

\* C15: the stored summary is the empty string when the extracted body text
\* is empty, and otherwise the first 25 space-delimited tokens of the text
\* joined by spaces and followed by '...'.
C15_SummaryFromBody ==
    \A i \in Candidates : \A r \in RowsOf(i) :
        r.summary = (IF ExtractedText(PageOf(i)) = <<>> THEN <<>>
                     ELSE SummaryOf(ExtractedText(PageOf(i))))

\* the page has a time element whose datetime attribute parses
DateOnPage(p) ==
    p.time.present /\ p.time.datetime # Null /\ NewDate(p.time.datetime).valid

\* C16: the stored date is the ISO-8601 form of the instant the datetime
\* attribute of the page's time element denotes, and the empty string when
\* there is no time element, no datetime attribute, or the attribute does not
\* parse.
C16_DateFromPage ==
    \A i \in Candidates : \A r \in RowsOf(i) :
        r.date = (IF DateOnPage(PageOf(i))
                  THEN <<IsoText[NewDate(PageOf(i).time.datetime).t + 1]>>
                  ELSE <<>>)

----------------------------------------------------------------------------
(* Rows per candidate (Spec) *)

\* the candidates marked succeeded
Succeeded == {i \in Candidates : log[i].succeeded}

\* the rows stored with a given id
RowsWithId(id) == {r \in db : r.id = id}

RECURSIVE IssuedUpTo(_)
\* the INSERT statements issued for the first n candidates
IssuedUpTo(n) == IF n = 0 THEN 0 ELSE log[n].inserts + IssuedUpTo(n - 1)

\* C20: a candidate has at most one row, and has one exactly when it
\* succeeded; every attempt that got past page.goto drew a fresh id, and an
\* attempt whose INSERT was rejected left no row of its id; the rows the run
\* inserted are as many as the candidates that succeeded, and the id a
\* succeeded entry carries in the snapshot is the id of its one row.
C20_OneRowPerSucceeded ==
    /\ \A i \in Candidates :
        /\ Cardinality(log[i].rows) = (IF log[i].succeeded THEN 1 ELSE 0)
        /\ Cardinality(RowsOf(i)) = Cardinality(log[i].rows)
        /\ log[i].succeeded => log[i].rows = {articles[i].id}
        /\ ~log[i].succeeded /\ articles[i].id # Undefined =>
                RowsWithId(articles[i].id) = {}
        /\ \A j \in Candidates : i # j => log[i].rows \cap log[j].rows = {}
    /\ articles # <<>> =>
        /\ ids = IssuedUpTo(Len(articles))
        /\ Cardinality({articles[i].id : i \in {j \in Candidates : log[j].inserts >= 1}})
                = Cardinality({j \in Candidates : log[j].inserts >= 1})
    /\ Cardinality(trace.inserted) = Cardinality(Succeeded)
    /\ Cardinality({r \in db : r.id \in trace.inserted}) = Cardinality(Succeeded)
    /\ trace.writes = 1 =>
            \A i \in Succeeded :
                /\ "id" \in DOMAIN snapshot.content[i]
                /\ Cardinality(RowsWithId(snapshot.content[i].id)) = 1
                /\ \A r \in RowsWithId(snapshot.content[i].id) :
                        r.link = snapshot.content[i].link /\ r \in RowsOf(i)

C20_Witness ==
    /\ pc = "done" /\ trace.writes = 1
    /\ \E i, j \in Candidates :
        /\ log[i].succeeded /\ log[i].inserts = 2 /\ log[i].gotos = 3
        /\ ~log[j].succeeded /\ log[j].inserts = 3

----------------------------------------------------------------------------
(* processBody on its own (SpecBody) *)

TextInputs == {Null, Undefined, <<>>, <<"o", "n", "e">>, Trim(BodyText), Para1}
ParagraphInputs ==
    {<<>>, << <<>> >>, <<Para1>>, <<Para1, Para2>>, << <<>>, Para1 >>, <<Trim(BodyText)>>}
LinkInputs ==
    {Null, Undefined, <<>>, Origin \o Url("/news/a"), Origin \o Url("/news/b")}

InitBody ==
    /\ script \in Scripts
    /\ world = "site"
    /\ InitJob
    /\ call \in [body : IF script = "index" THEN TextInputs ELSE ParagraphInputs,
                 link : LinkInputs, returned : {FALSE}, out : {<<>>}]

\* processBody(body, link) returns
CallProcessBody ==
    /\ ~call.returned
    /\ call' = [call EXCEPT !.returned = TRUE,
                            !.out = processBody(script, call.body, call.link)]
    /\ UNCHANGED <<script, world, run, pc, client, browser, db, snapshot, articles,
                   idx, attempts, ids, log, trace, earlier>>

NextBody == CallProcessBody

SpecBody == InitBody /\ [][NextBody]_vars

Contains(s, sub) ==
    \E k \in 0..(Len(s) - Len(sub)) : SubSeq(s, k + 1, k + Len(sub)) = sub

\* an empty or absent body: for part_000, no paragraph at all
EmptyBody(body) == IF script = "index" THEN Falsy(body) ELSE body = <<>>

Wrapped(body) ==
    IF script = "index" THEN Paragraph(body)
    ELSE Join([i \in 1..Len(body) |-> Paragraph(body[i])], <<>>)

\* C9: processBody of an empty body and a non-empty link contains the
\* citation block of the link; of a non-empty body it is the wrapped body
\* followed by the citation block; of an empty body and an empty link it is
\* the empty string.
C9_ProcessBodyContract ==
    call.returned =>
        /\ EmptyBody(call.body) /\ ~Falsy(call.link) =>
            Contains(call.out, Citation(call.link, Resource))
        /\ ~EmptyBody(call.body) =>
            call.out = Wrapped(call.body) \o Citation(call.link, Resource)
        /\ EmptyBody(call.body) /\ Falsy(call.link) => call.out = <<>>

====
